---- MODULE Spec2Model ----
(***************************************************************************)
(* A model of the video batch resizer in its two versions:                 *)
(*   "v37"  src/video_resize.py      (absolute bitrate cap, count ETA)     *)
(*   "v41"  src/videoresize_4_1.py   (bits-per-pixel cap, byte ETA)        *)
(* Python's float is IEEE binary64; the arithmetic of set_size and         *)
(* set_bit_rate is modelled bit for bit on multi-limb naturals, because    *)
(* TLC's integers are 32 bits wide.                                        *)
(***************************************************************************)
EXTENDS Integers, Sequences, FiniteSets, TLC

(***************************************************************************)
(* Multi-limb naturals: little-endian sequences of limbs in                *)
(* 0..LimbBase-1 without leading zero limbs; <<>> is 0.                    *)
(***************************************************************************)
LimbBits == 15
LimbBase == 2^LimbBits

RECURSIVE BNorm(_)
BNorm(s) ==
  IF s = <<>> THEN s
  ELSE IF s[Len(s)] = 0 THEN BNorm(SubSeq(s, 1, Len(s) - 1)) ELSE s

RECURSIVE BFromInt(_)
BFromInt(n) ==
  IF n = 0 THEN <<>> ELSE <<n % LimbBase>> \o BFromInt(n \div LimbBase)

RECURSIVE BToInt(_)
BToInt(s) ==
  IF s = <<>> THEN 0 ELSE Head(s) + LimbBase * BToInt(Tail(s))

RECURSIVE BMulCarry(_, _, _)
BMulCarry(s, n, c) ==
  IF s = <<>> THEN BFromInt(c)
  ELSE LET t == Head(s) * n + c
       IN  <<t % LimbBase>> \o BMulCarry(Tail(s), n, t \div LimbBase)

\* s * n for a limb-sized n (0 <= n <= LimbBase)
BMulSmall(s, n) == BNorm(BMulCarry(s, n, 0))

RECURSIVE BAddCarry(_, _, _)
BAddCarry(s, t, c) ==
  IF s = <<>> /\ t = <<>> THEN BFromInt(c)
  ELSE LET a == IF s = <<>> THEN 0 ELSE Head(s)
           b == IF t = <<>> THEN 0 ELSE Head(t)
           u == a + b + c
       IN  <<u % LimbBase>> \o
           BAddCarry(IF s = <<>> THEN s ELSE Tail(s),
                     IF t = <<>> THEN t ELSE Tail(t), u \div LimbBase)

BAdd(s, t) == BNorm(BAddCarry(s, t, 0))

RECURSIVE BMul(_, _)
BMul(s, t) ==
  IF t = <<>> \/ s = <<>> THEN <<>>
  ELSE BAdd(BMulSmall(s, Head(t)), BNorm(<<0>> \o BMul(s, Tail(t))))

\* Long division of s by a limb-sized d, most significant limb first:
\* <<quotient limbs (little-endian, not normalised), remainder>>.
RECURSIVE BDivStep(_, _, _, _)
BDivStep(s, i, d, r) ==
  IF i = 0 THEN [q |-> <<>>, r |-> r]
  ELSE LET cur  == r * LimbBase + s[i]
           rest == BDivStep(s, i - 1, d, cur % d)
       IN  [q |-> rest.q \o <<cur \div d>>, r |-> rest.r]

BDivSmall(s, d) ==
  LET x == BDivStep(s, Len(s), d, 0) IN [q |-> BNorm(x.q), r |-> x.r]

RECURSIVE IntBitLen(_)
IntBitLen(n) == IF n = 0 THEN 0 ELSE 1 + IntBitLen(n \div 2)

BBitLen(s) ==
  IF s = <<>> THEN 0 ELSE LimbBits * (Len(s) - 1) + IntBitLen(s[Len(s)])

Zeros(k) == [i \in 1..k |-> 0]

\* s * 2^k and floor(s / 2^k)
BShl(s, k) ==
  IF s = <<>> THEN s
  ELSE BMulSmall(Zeros(k \div LimbBits) \o s, 2^(k % LimbBits))

BShr(s, k) ==
  IF k \div LimbBits >= Len(s) THEN <<>>
  ELSE BDivSmall(SubSeq(s, (k \div LimbBits) + 1, Len(s)), 2^(k % LimbBits)).q

\* bit i of s (bit 0 is the least significant)
BBit(s, i) ==
  IF i \div LimbBits >= Len(s) THEN 0
  ELSE (s[(i \div LimbBits) + 1] \div 2^(i % LimbBits)) % 2

\* bits 0..j-1 of s are all zero
BLowZero(s, j) ==
  /\ \A i \in 1..(j \div LimbBits) : i > Len(s) \/ s[i] = 0
  /\ \/ j % LimbBits = 0
     \/ (j \div LimbBits) + 1 > Len(s)
     \/ s[(j \div LimbBits) + 1] % 2^(j % LimbBits) = 0

\* s < t for normalised s, t
RECURSIVE BLessFrom(_, _, _)
BLessFrom(s, t, i) ==
  IF i = 0 THEN FALSE
  ELSE IF s[i] # t[i] THEN s[i] < t[i] ELSE BLessFrom(s, t, i - 1)

BLess(s, t) ==
  IF Len(s) # Len(t) THEN Len(s) < Len(t) ELSE BLessFrom(s, t, Len(s))

\* s - t for s >= t
RECURSIVE BSubBorrow(_, _, _)
BSubBorrow(s, t, c) ==
  IF s = <<>> THEN <<>>
  ELSE LET b == IF t = <<>> THEN 0 ELSE Head(t)
           u == Head(s) - b - c
       IN  <<(u + LimbBase) % LimbBase>> \o
           BSubBorrow(Tail(s), IF t = <<>> THEN t ELSE Tail(t), IF u < 0 THEN 1 ELSE 0)

BSub(s, t) == BNorm(BSubBorrow(s, t, 0))

\* the largest digit d in lo..hi-1 with b * d <= c, given b * lo <= c < b * hi
RECURSIVE BDigit(_, _, _, _)
BDigit(c, b, lo, hi) ==
  IF hi - lo <= 1 THEN lo
  ELSE IF BLess(c, BMulSmall(b, (lo + hi) \div 2))
       THEN BDigit(c, b, lo, (lo + hi) \div 2)
       ELSE BDigit(c, b, (lo + hi) \div 2, hi)

\* Long division of a by b # 0, most significant limb first, r the
\* remainder so far: [q |-> quotient limbs (not normalised), r |-> remainder].
RECURSIVE BDivLimbs(_, _, _, _)
BDivPut(d, digit) == [q |-> d.q \o <<digit>>, r |-> d.r]

BDivDigit(a, b, i, c, digit) ==
  IF digit = 0 THEN BDivPut(BDivLimbs(a, b, i, c), 0)
  ELSE BDivPut(BDivLimbs(a, b, i, BSub(c, BMulSmall(b, digit))), digit)

BDivLimb(a, b, i, c) ==
  IF BLess(c, b) THEN BDivDigit(a, b, i, c, 0)
  ELSE BDivDigit(a, b, i, c, BDigit(c, b, 0, LimbBase))

BDivLimbs(a, b, i, r) ==
  IF i = 0 THEN [q |-> <<>>, r |-> r]
  ELSE BDivLimb(a, b, i - 1, BNorm(<<a[i]>> \o r))

BDivNorm(d) == [q |-> BNorm(d.q), r |-> d.r]

BDiv(a, b) == BDivNorm(BDivLimbs(a, b, Len(a), <<>>))

(***************************************************************************)
(* Python float (IEEE 754 binary64), non-negative values only: the value   *)
(* of [m, e] is m * 2^e with m of exactly MantBits bits, or m = <<>> for   *)
(* zero.  A Python int that takes part in float arithmetic is converted    *)
(* exactly (every integer of the model is far below 2^53), so ints and     *)
(* floats are both kept in this form and compare by value as in Python.    *)
(***************************************************************************)
MantBits == 53

FZero == [m |-> <<>>, e |-> 0]

\* q = floor(n / 2^k) rounded to nearest, ties to even, on the k bits dropped
FRoundUp(n, k, q) ==
  IF BBit(n, k - 1) = 1 /\ (~BLowZero(n, k - 1) \/ BBit(q, 0) = 1)
  THEN BAdd(q, <<1>>)
  ELSE q

\* the rounding may carry into bit MantBits
FCarry(q, e) ==
  IF BBitLen(q) > MantBits THEN [m |-> BShr(q, 1), e |-> e + 1] ELSE [m |-> q, e |-> e]

FRoundLen(n, e, len) ==
  IF len = 0 THEN FZero
  ELSE IF len <= MantBits
       THEN [m |-> BShl(n, MantBits - len), e |-> e - (MantBits - len)]
       ELSE FCarry(FRoundUp(n, len - MantBits, BShr(n, len - MantBits)),
                   e + (len - MantBits))

\* The binary64 nearest to n * 2^e, ties to even.
FRound(n, e) == FRoundLen(n, e, BBitLen(n))

FromInt(n) == FRound(BFromInt(n), 0)

\* a / b for ints a >= 0, 0 < b < LimbBase: Python's true division, which is
\* correctly rounded.  The quotient is taken to at least 56 bits and the
\* remainder is folded into a sticky bit below it.
FSticky(d) == BAdd(BMulSmall(d.q, 2), IF d.r = 0 THEN <<>> ELSE <<1>>)

FDivInt(a, b) ==
  IF a = 0 THEN FZero
  ELSE LET k == MantBits + 2 + IntBitLen(b)
       IN  FRound(FSticky(BDivSmall(BShl(BFromInt(a), k), b)), 0 - k - 1)

\* f * g, rounded once
FMul(f, g) ==
  IF f.m = <<>> \/ g.m = <<>> THEN FZero
  ELSE FRound(BMul(f.m, g.m), f.e + g.e)

FLess(f, g) ==
  IF f.m = <<>> THEN g.m # <<>>
  ELSE IF g.m = <<>> THEN FALSE
  ELSE IF f.e # g.e THEN f.e < g.e
  ELSE BLess(f.m, g.m)

\* Python's min(a, b) / max(a, b) by value
FMin(f, g) == IF FLess(g, f) THEN g ELSE f
FMax(f, g) == IF FLess(f, g) THEN g ELSE f

\* int(f): truncation toward zero (f >= 0, result below 2^30)
FInt(f) ==
  IF f.m = <<>> THEN 0
  ELSE IF f.e >= 0 THEN BToInt(BShl(f.m, f.e))
  ELSE BToInt(BShr(f.m, 0 - f.e))

\* f holds an integer value
FIsInt(f) == f.m = <<>> \/ f.e >= 0 \/ BLowZero(f.m, 0 - f.e)

\* the mantissa of f on the exponent e <= f.e
FAlign(f, e) == IF f.m = <<>> THEN <<>> ELSE BShl(f.m, f.e - e)

FMinExp(f, g) ==
  IF f.m = <<>> THEN g.e ELSE IF g.m = <<>> THEN f.e
  ELSE IF f.e < g.e THEN f.e ELSE g.e

FAddAt(f, g, e) == FRound(BAdd(FAlign(f, e), FAlign(g, e)), e)

FSubAt(f, g, e) == FRound(BSub(FAlign(f, e), FAlign(g, e)), e)

\* f + g and f - g (f >= g), rounded once
FAdd(f, g) == FAddAt(f, g, FMinExp(f, g))

FSub(f, g) == FSubAt(f, g, FMinExp(f, g))

FStickyBig(d) == BAdd(BMulSmall(d.q, 2), IF d.r = <<>> THEN <<>> ELSE <<1>>)

\* f / g for g # 0, rounded once: the quotient of the mantissas is taken
\* to MantBits + 2 bits or more, the remainder folded into a sticky bit
FDiv(f, g) ==
  IF g.m # <<>> /\ f.m = <<>> THEN FZero
  ELSE FRound(FStickyBig(BDiv(BShl(f.m, MantBits + 2), g.m)),
              f.e - g.e - (MantBits + 2) - 1)

(***************************************************************************)
(* The program state.                                                      *)
(*   variant           which of the two source files runs                  *)
(*   config_dict       self.config_dict (mode, custom_param, ...).  A      *)
(*                     number given on the command line as a decimal is    *)
(*                     kept as <<numerator, denominator>> and converted    *)
(*                     with Python's float() where it is used              *)
(*   video_info_dict   self.video_info_dict: asset -> native metadata      *)
(*   resize_param_dict self.resize_param_dict: asset -> plan               *)
(*   pc                the stage run() is at                               *)
(*   idx, num_deletedVideos, total_bytes, processed_bytes                  *)
(*                     the locals of resize()                              *)
(* The world around it:                                                    *)
(*   video_pathls      the discovered files, in discovery order            *)
(*   probe             what ffmpeg.probe answers for each file             *)
(*   src_bytes         os.path.getsize of each source file                 *)
(*   fs                the file at each asset's output path                *)
(*   run               which run of the program this is (1 = first)        *)
(* And a record of what happened, for the properties:                      *)
(*   log               run -> asset -> what its iteration did              *)
(* The clock of the finish-time estimate (v41):                            *)
(*   resize_start_time, now   two readings of time.time()                  *)
(*   estimated_finish_time    what calculate_estimated_finish_time returns *)
(* The estimate is only written to the log; the batch records in log that  *)
(* it was made, and the function is applied on its own in SpecEta.         *)
(* Assets are numbered 1..n in discovery order (the dicts keep insertion   *)
(* order).                                                                 *)
(***************************************************************************)
VARIABLES variant, config_dict, video_info_dict, resize_param_dict, pc,
          idx, num_deletedVideos, total_bytes, processed_bytes,
          video_pathls, probe, src_bytes, fs, run, log,
          resize_start_time, now, estimated_finish_time

progVars  == <<video_info_dict, resize_param_dict, pc>>
loopVars  == <<idx, num_deletedVideos, total_bytes, processed_bytes>>
worldVars == <<video_pathls, probe, src_bytes>>
clockVars == <<resize_start_time, now, estimated_finish_time>>

vars == <<variant, config_dict, video_info_dict, resize_param_dict, pc,
          idx, num_deletedVideos, total_bytes, processed_bytes,
          video_pathls, probe, src_bytes, fs, run, log,
          resize_start_time, now, estimated_finish_time>>

Variants == {"v37", "v41"}
PresetModes == {"fullhd", "4k", "1920box", "3840box"}
Directions == {"x", "y", "xy"}

\* float("<num>/<den> as a decimal"), e.g. <<36, 1000>> for "0.036": the
\* decimal parse is correctly rounded, like the true division.
DecimalToFloat(d) == FDivInt(d[1], d[2])

\* preset_sizes[mode]
PresetSizes(mode, custom_param) ==
  CASE mode = "fullhd"  -> <<1920, 1080>>
    [] mode = "4k"      -> <<3840, 2160>>
    [] mode = "1920box" -> <<1920, 1920>>
    [] mode = "3840box" -> <<3840, 3840>>
    [] OTHER            -> custom_param

\* ratio_w if limit x, ratio_h if limit y, min of both if xy
CombineRatioBug(ratio_w, ratio_h, limit_direction) ==
  IF limit_direction = "x" THEN ratio_w
  ELSE IF limit_direction = "y" THEN ratio_h
  ELSE FMax(ratio_w, ratio_h)

CombineRatio(ratio_w, ratio_h, limit_direction) ==
  IF limit_direction = "x" THEN ratio_w
  ELSE IF limit_direction = "y" THEN ratio_h
  ELSE FMin(ratio_w, ratio_h)

\* target / origin if origin > target else 1
AxisRatioBug(origin, target) == FDivInt(target, origin)

AxisRatio(origin, target) ==
  IF origin > target THEN FDivInt(target, origin) ELSE FromInt(1)

\* The ratio the mode asks for, before the minimum size is looked at.
ModeRatio(origin_size, mode, custom_param, limit_direction) ==
  IF mode = "divide" THEN DecimalToFloat(custom_param)
  ELSE LET target == PresetSizes(mode, custom_param)
       IN  CombineRatio(AxisRatio(origin_size[1], target[1]),
                        AxisRatio(origin_size[2], target[2]), limit_direction)

\* (int(origin_w * ratio), int(origin_h * ratio))
ApplyRatioBug(origin_size, ratio) ==
  <<FInt(FMul(FromInt(origin_size[1]), ratio)),
    FInt(FMul(FromInt(origin_size[1]), ratio))>>

ApplyRatio(origin_size, ratio) ==
  <<FInt(FMul(FromInt(origin_size[1]), ratio)),
    FInt(FMul(FromInt(origin_size[2]), ratio))>>

\* new_w < min_w or new_h < min_h
BelowMin(new_size, min_size) ==
  new_size[1] < min_size[1] \/ new_size[2] < min_size[2]

\* The ratio after the minimum-size adjustment.
MinRatio(origin_size, ratio, min_size, limit_direction) ==
  LET ratio_w == FDivInt(min_size[1], origin_size[1])
      ratio_h == FDivInt(min_size[2], origin_size[2])
  IN  IF limit_direction = "x" THEN FMax(ratio, ratio_w)
      ELSE IF limit_direction = "y" THEN FMax(ratio, ratio_h)
      ELSE FMax(FMax(ratio, ratio_w), ratio_h)

\* an odd dimension is incremented
RoundEvenBug(n) == n

RoundEven(n) == IF n % 2 = 1 THEN n + 1 ELSE n

EvenSize(new_size) == <<RoundEven(new_size[1]), RoundEven(new_size[2])>>

\* the size is computed again from the adjusted ratio if it fell below min_size
MinAdjust(origin_size, ratio, new_size, min_size, limit_direction) ==
  IF BelowMin(new_size, min_size)
  THEN ApplyRatio(origin_size, MinRatio(origin_size, ratio, min_size, limit_direction))
  ELSE new_size

SizeFor(origin_size, ratio, min_size, limit_direction) ==
  EvenSize(MinAdjust(origin_size, ratio, ApplyRatio(origin_size, ratio),
                     min_size, limit_direction))

set_size(origin_size, mode, custom_param, min_size, limit_direction) ==
  SizeFor(origin_size, ModeRatio(origin_size, mode, custom_param, limit_direction),
          min_size, limit_direction)

\* v41: bpp * width * height * fps, multiplied left to right
bitrateFromBPP(bpp, width, height, fps) ==
  FMul(FMul(FMul(bpp, FromInt(width)), FromInt(height)), fps)

\* the cap if the native bitrate exceeds it, else the native bitrate
CapBug(origin, cap) == cap

Cap(origin, cap) == IF FLess(cap, origin) THEN cap ELSE origin

\* v37: set_bit_rate(origin_bitrate, config_bitrate)
set_bit_rate_37(origin_bitrate, config_bitrate) ==
  Cap(origin_bitrate, FromInt(config_bitrate))

\* v41: set_bit_rate(origin_bitrate, cfg_bpp, cfg_width, cfg_height, cfg_fps)
set_bit_rate_41(origin_bitrate, cfg_bpp, cfg_width, cfg_height, cfg_fps) ==
  Cap(origin_bitrate, bitrateFromBPP(cfg_bpp, cfg_width, cfg_height, cfg_fps))

set_fps(origin_fps, config_fps) == Cap(origin_fps, config_fps)

ChangeRequiredBug(new_size, orig_size, new_bitrate, orig_bitrate, new_fps, orig_fps) ==
  (new_size # orig_size) \/ (new_bitrate # orig_bitrate)

ChangeRequired(new_size, orig_size, new_bitrate, orig_bitrate, new_fps, orig_fps) ==
  (new_size # orig_size) \/ (new_bitrate # orig_bitrate) \/ (new_fps # orig_fps)

\* resize_param_dict[path]
PlanRecord(info, new_size, new_bitrate, new_fps) ==
  [size |-> new_size, bit_rate |-> new_bitrate, fps |-> new_fps,
   change_required |-> ChangeRequired(new_size, info.size, new_bitrate,
                                      info.bit_rate, new_fps, info.avg_frame_rate),
   orig_size |-> info.size, orig_bit_rate |-> info.bit_rate,
   orig_fps |-> info.avg_frame_rate]

\* v37 caps by the configured bitrate, v41 by the bits per pixel of the new
\* size and frame rate
PlanBitrate(info, cfg, v, new_size, new_fps) ==
  PlanRecord(info, new_size,
             IF v = "v37" THEN set_bit_rate_37(info.bit_rate, cfg.bitrate)
             ELSE set_bit_rate_41(info.bit_rate, DecimalToFloat(cfg.bpp),
                                  new_size[1], new_size[2], new_fps),
             new_fps)

\* One plan of set_parameters: the body of its loop.
PlanFor(info, cfg, v) ==
  PlanBitrate(info, cfg, v,
              set_size(info.size, cfg.mode, cfg.custom_param,
                       cfg.min_size, cfg.limit_direction),
              set_fps(info.avg_frame_rate, DecimalToFloat(cfg.fps)))

set_parameters ==
  /\ pc = "set_parameters"
  /\ resize_param_dict' =
       [a \in DOMAIN video_info_dict |-> PlanFor(video_info_dict[a], config_dict, variant)]
  /\ pc' = "resize"
  /\ UNCHANGED <<variant, config_dict, video_info_dict, loopVars, worldVars,
                 fs, run, log>>
  /\ UNCHANGED clockVars

\* One entry of video_info_dict, as get_infoDict builds it from a probe:
\* int(width), int(height), int(bit_rate), float(eval("N/D")).
InfoOf(w, h, bit_rate, rate) ==
  [size |-> <<w, h>>, bit_rate |-> FromInt(bit_rate),
   avg_frame_rate |-> FDivInt(rate[1], rate[2])]

(***************************************************************************)
(* SpecParams: set_parameters on one asset, the inputs swept.              *)
(***************************************************************************)
MaxSmallDim == 3

NativeWidths  == (1..MaxSmallDim) \cup {49, 107, 1280, 1919, 1920, 3840}
NativeHeights == (1..MaxSmallDim) \cup {49, 720, 1079, 1080, 2160, 4280}

\* <<mode, custom_param>>: custom takes (width, height), divide a decimal in (0,1)
ModeSettings ==
  {<<m, <<0, 0>>>> : m \in PresetModes}
    \cup {<<"custom", s>> : s \in {<<1, 1>>, <<3, 3>>, <<1280, 720>>}}
    \cup {<<"divide", d>> : d \in {<<5, 10>>, <<1, 100>>}}

MinSizes == {<<1, 1>>, <<3, 3>>, <<965, 1>>, <<2000, 2>>}

\* A path is the sequence of its components, a component the sequence of
\* its characters.
InDir == <<"i", "n">>
OutDir == <<"o", "u", "t">>

\* the names of the files in the input directory, in discovery order
FileNames == <<<<"a">>, <<"b">>, <<"c">>, <<"d">>>>

\* Path.parent, Path.name
Parent(path) == SubSeq(path, 1, Len(path) - 1)

Name(path) == path[Len(path)]

\* config_dict["input"]: the path, and what is_file() answers for it
InputOf(path, is_file) == [parts |-> path, is_file |-> is_file]

ConfigOf(ms, dir, min, fps, cap, copy) ==
  [input |-> InputOf(<<InDir>>, FALSE), output |-> <<OutDir>>,
   mode |-> ms[1], custom_param |-> ms[2], limit_direction |-> dir,
   min_size |-> min, fps |-> fps, bitrate |-> cap[1], bpp |-> cap[2],
   nochange_copy |-> copy]

\* the defaults of __init__: bitrate 4500000 (v37), bpp 0.036 (v41), fps 60
DefaultCap == <<4500000, <<36, 1000>>>>
DefaultFps == <<60, 1>>

\* every size, mode, direction and minimum, one bitrate and frame rate
InitSizeSweep ==
  \E w \in NativeWidths, h \in NativeHeights, ms \in ModeSettings,
     dir \in Directions, min \in MinSizes :
    /\ config_dict = ConfigOf(ms, dir, min, DefaultFps, DefaultCap, FALSE)
    /\ video_info_dict = [a \in {1} |-> InfoOf(w, h, 1000000, <<30, 1>>)]

\* every bitrate, frame rate and cap, a few sizes
InitRateSweep ==
  \E sz \in {<<1920, 1080>>, <<3840, 2160>>, <<1280, 720>>, <<1279, 719>>},
     br \in {0, 500000, 1000000, 2239488, 4500000, 5000000},
     rate \in {<<30, 1>>, <<30000, 1001>>, <<60, 1>>, <<120, 1>>},
     fps \in {<<30, 1>>, <<60, 1>>, <<2997, 100>>},
     cap \in {DefaultCap, <<1000000, <<1, 10>>>>},
     ms \in {<<"fullhd", <<0, 0>>>>, <<"3840box", <<0, 0>>>>} :
    /\ config_dict = ConfigOf(ms, "xy", <<1, 1>>, fps, cap, FALSE)
    /\ video_info_dict = [a \in {1} |-> InfoOf(sz[1], sz[2], br, rate)]

InitParams ==
  /\ variant \in Variants
  /\ pc = "set_parameters"
  /\ resize_param_dict = <<>>
  /\ (InitSizeSweep \/ InitRateSweep)
  /\ idx = 0 /\ num_deletedVideos = 0 /\ total_bytes = 0 /\ processed_bytes = 0
  /\ video_pathls = <<<<InDir, FileNames[1]>>>> /\ probe = <<>> /\ src_bytes = <<1>>
  /\ fs = <<>> /\ run = 1 /\ log = <<>>
  /\ resize_start_time = FZero /\ now = FZero /\ estimated_finish_time = FZero

NextParams == set_parameters

SpecParams == InitParams /\ [][NextParams]_vars


(***************************************************************************)
(* The batch: get_infoDict, set_parameters and resize() over the           *)
(* discovered files, and a second run of the program over the same files   *)
(* and output directory.                                                   *)
(***************************************************************************)
MaxAssets == 2
MaxBytes == 2
MaxRuns == 2

Assets == 1..Len(video_pathls)

\* The file at an output path: what wrote it, its size in bytes, and a
\* version that every write raises.
Absent == [kind |-> "absent", bytes |-> 0, ver |-> 0]
Stale  == [kind |-> "stale", bytes |-> 1, ver |-> 0]

Written(a, kind, bytes) == [kind |-> kind, bytes |-> bytes, ver |-> fs[a].ver + 1]

\* output_path.exists()
OutputExistsBug(a) == FALSE

OutputExists(a) == fs[a].kind # "absent"

\* output_size > input_size
OversizedBug(a) == FALSE

Oversized(a) == fs[a].bytes > src_bytes[a]

\* shutil.copy2(path, output_path): the copy is made, or it raises before
\* it opened the destination, or after it truncated it
CopyResults == {"ok", "raised_untouched", "raised_partial"}

CopyEffectBug(a, res) == [fs EXCEPT ![a] = Absent]

CopyEffect(a, res) ==
  CASE res = "ok"             -> [fs EXCEPT ![a] = Written(a, "copy", src_bytes[a])]
    [] res = "raised_partial" -> [fs EXCEPT ![a] = Written(a, "partialcopy", 0)]
    [] OTHER                  -> fs

\* What one probe answers: a video stream, none, or an exception.
ProbeChange  == [kind |-> "ok", size |-> <<3840, 2160>>, bit_rate |-> 5000000, rate |-> <<30, 1>>]
ProbeSame    == [kind |-> "ok", size |-> <<1280, 720>>, bit_rate |-> 500000, rate |-> <<30, 1>>]
\* within every limit, its dimensions odd
ProbeOdd     == [kind |-> "ok", size |-> <<1279, 719>>, bit_rate |-> 500000, rate |-> <<30, 1>>]
\* a video stream whose avg_frame_rate is reported as "0/0"
ProbeNoRate  == [kind |-> "ok", size |-> <<1280, 720>>, bit_rate |-> 500000, rate |-> <<0, 0>>]
ProbeNoVideo == [kind |-> "novideo", size |-> <<0, 0>>, bit_rate |-> 0, rate |-> <<0, 1>>]
ProbeError   == [kind |-> "error", size |-> <<0, 0>>, bit_rate |-> 0, rate |-> <<0, 1>>]
Probes == {ProbeChange, ProbeSame, ProbeOdd, ProbeNoRate, ProbeNoVideo, ProbeError}

NoLog == [existed |-> FALSE, before |-> Absent, encoder |-> 0, produced |-> Absent,
          copies |-> 0, eta |-> 0, outcome |-> "none"]

\* name.replace(old, new) for every entry of replacements: no replacement
\* is itself replaced by a later entry, so each character is mapped once
Replacement(c) ==
  CASE c \in {" ", "*", "|"}    -> <<"_">>
    [] c \in {"'", "\"", "^"}  -> <<"~">>
    [] c = ":"                  -> <<"=">>
    [] c \in {"?", "<", ">"}    -> <<>>
    [] OTHER                    -> <<c>>

RECURSIVE normalize_filename(_)
normalize_filename(name) ==
  IF name = <<>> THEN <<>>
  ELSE Replacement(Head(name)) \o normalize_filename(Tail(name))

\* normalize_paths on an input that is a file: os.rename to the normalized
\* name; config_dict["input"] follows the file if the rename is made
NormalizedInput(input, renamed) ==
  IF input.is_file /\ renamed
  THEN InputOf(Parent(input.parts) \o <<normalize_filename(Name(input.parts))>>, TRUE)
  ELSE input

InputBaseBug(cfg, file) ==
  [cfg EXCEPT !.input = InputOf(Parent(file), FALSE), !.output = Parent(file)]

\* config_dict["input"] = input_dir.parent
InputBase(cfg, file) == [cfg EXCEPT !.input = InputOf(Parent(file), FALSE)]

\* The files the walk of the input directory finds: those of the directory,
\* none of them if the directory is the output directory (recursive or
\* not, what lies in the output directory is left out).
Discovered(input_dir, output_dir) ==
  IF input_dir = output_dir THEN <<>>
  ELSE [i \in DOMAIN probe |-> input_dir \o <<FileNames[i]>>]

\* get_videos: normalize_paths, then the list of files. An input that is a
\* file is the only entry and its parent becomes config_dict["input"]; an
\* input directory in which nothing is found raises ValueError. The names
\* inside an input directory are taken as normalized already.
get_videos ==
  /\ pc = "get_videos"
  /\ \E renamed \in BOOLEAN :
       LET input == NormalizedInput(config_dict.input, renamed)
           found == Discovered(input.parts, config_dict.output)
       IN  IF input.is_file
           THEN /\ video_pathls' = <<input.parts>>
                /\ config_dict' = InputBase(config_dict, input.parts)
                /\ pc' = "get_infoDict"
           ELSE /\ video_pathls' = found
                /\ config_dict' = config_dict
                /\ pc' = IF found = <<>> THEN "crashed_get_videos" ELSE "get_infoDict"
  /\ UNCHANGED <<variant, video_info_dict, resize_param_dict, loopVars,
                 probe, src_bytes, fs, run, log>>
  /\ UNCHANGED clockVars

\* video_abs.relative_to(input_base)
relative_to(path, base) == SubSeq(path, Len(base) + 1, Len(path))

\* output_dir / video_abs.relative_to(input_base)
output_path(a) ==
  config_dict.output \o relative_to(video_pathls[a], config_dict.input.parts)

\* the source file itself, found where the output is to be written
SourceFile(bytes) == [kind |-> "source", bytes |-> bytes, ver |-> 0]

\* get_info returned a stream (not None)
HasInfoBug(p) == TRUE

HasInfo(p) == p.kind = "ok"

\* float(eval("N/0")) raises ZeroDivisionError, outside get_info's try
InfoRaises(p) == HasInfo(p) /\ p.rate[2] = 0

\* self.video_info_dict is assigned after the loop over video_pathls: if
\* building one entry raises, the exception leaves get_infoDict and run()
get_infoDict ==
  /\ pc = "get_infoDict"
  /\ IF \E a \in Assets : InfoRaises(probe[a])
     THEN /\ pc' = "crashed_get_infoDict"
          /\ UNCHANGED video_info_dict
     ELSE /\ video_info_dict' =
               [a \in {b \in Assets : HasInfo(probe[b])} |->
                  InfoOf(probe[a].size[1], probe[a].size[2], probe[a].bit_rate,
                         probe[a].rate)]
          /\ pc' = "set_parameters"
  /\ UNCHANGED <<variant, config_dict, resize_param_dict, loopVars, worldVars,
                 fs, run, log>>
  /\ UNCHANGED clockVars

\* resize_param_dict.items(), in insertion order
RECURSIVE Ascending(_)
Ascending(S) ==
  IF S = {} THEN <<>>
  ELSE LET m == CHOOSE x \in S : \A y \in S : x <= y
       IN  <<m>> \o Ascending(S \ {m})

Batch == Ascending(DOMAIN resize_param_dict)

\* the size of one file only
SumBytesBug(S) == IF S = {} THEN 0 ELSE src_bytes[CHOOSE x \in S : TRUE]

RECURSIVE SumBytes(_)
SumBytes(S) ==
  IF S = {} THEN 0
  ELSE LET a == CHOOSE x \in S : TRUE IN src_bytes[a] + SumBytes(S \ {a})

\* resize() up to its loop
ResizeStart ==
  /\ pc = "resize"
  /\ total_bytes' = IF variant = "v41" THEN SumBytes(DOMAIN resize_param_dict) ELSE 0
  /\ processed_bytes' = 0
  /\ num_deletedVideos' = 0
  /\ idx' = 0
  /\ pc' = "loop"
  /\ UNCHANGED <<variant, config_dict, video_info_dict, resize_param_dict,
                 worldVars, fs, run, log>>
  /\ UNCHANGED clockVars

InLoop == pc = "loop" /\ idx < Len(Batch)

Cur == Batch[idx + 1]

\* v37 divides the elapsed time by processed_count - num_deletedVideos
EtaDivisor(deleted) == (idx + 1) - deleted

\* the output file exists: skip; v41 takes the file out of total_bytes and
\* estimates the finish time, v37 goes straight to the next file
SkippedTotalBug(total, a) == total

\* v41: total_bytes -= os.path.getsize(path); v37 keeps no byte totals
SkippedTotal(total, a) == IF variant = "v41" THEN total - src_bytes[a] ELSE total

SkipExisting ==
  /\ InLoop /\ OutputExists(Cur)
  /\ num_deletedVideos' = num_deletedVideos + 1
  /\ total_bytes' = SkippedTotal(total_bytes, Cur)
  /\ log' = [log EXCEPT ![run][Cur] =
               [@ EXCEPT !.existed = fs[Cur].kind # "absent", !.before = fs[Cur],
                         !.eta = IF variant = "v41" THEN 1 ELSE 0,
                         !.outcome = "exists"]]
  /\ idx' = idx + 1
  /\ UNCHANGED <<variant, config_dict, progVars, processed_bytes, worldVars, fs, run>>
  /\ UNCHANGED clockVars

change_requiredBug(a) == TRUE

\* params["change_required"]
change_required(a) == resize_param_dict[a].change_required

NoChangeCopyBug(cfg) == CopyResults

\* if config_dict["nochange_copy"]: shutil.copy2 is called and ends in one of
\* CopyResults; otherwise nothing is called
NoChangeCopy(cfg) == IF cfg.nochange_copy THEN CopyResults ELSE {"none"}

\* no change required: copy the source or skip; v41 estimates and goes on,
\* v37 falls through to its estimate, whose division raises on a zero divisor
NoChange ==
  /\ InLoop /\ ~OutputExists(Cur) /\ ~change_required(Cur)
  /\ \E res \in NoChangeCopy(config_dict) :
       LET deleted == num_deletedVideos + 1
           raises  == variant = "v37" /\ EtaDivisor(deleted) = 0
       IN  /\ fs' = CopyEffect(Cur, res)
           /\ num_deletedVideos' = deleted
           /\ total_bytes' = SkippedTotal(total_bytes, Cur)
           /\ log' = [log EXCEPT ![run][Cur] =
                        [@ EXCEPT !.existed = fs[Cur].kind # "absent", !.before = fs[Cur],
                                  !.copies = IF res = "none" THEN 0 ELSE 1,
                                  !.eta = IF raises THEN 0 ELSE 1,
                                  !.outcome = CASE res = "none" -> "nochange_skipped"
                                                [] res = "ok" -> "nochange_copied"
                                                [] OTHER -> "nochange_copy_failed"]]
           /\ IF raises THEN pc' = "crashed" /\ idx' = idx
                        ELSE pc' = "loop" /\ idx' = idx + 1
  /\ UNCHANGED <<variant, config_dict, video_info_dict, resize_param_dict,
                 processed_bytes, worldVars, run>>
  /\ UNCHANGED clockVars

\* a change is required: subprocess.run(ffmpeg ...) is called and blocks
\* until ffmpeg exits (command_prefix is empty: os.name is not 'nt')
StartEncoder ==
  /\ InLoop /\ ~OutputExists(Cur) /\ change_required(Cur)
  /\ log' = [log EXCEPT ![run][Cur] =
               [@ EXCEPT !.existed = fs[Cur].kind # "absent", !.before = fs[Cur],
                         !.encoder = @ + 1]]
  /\ pc' = "encoding"
  /\ UNCHANGED <<variant, config_dict, video_info_dict, resize_param_dict,
                 loopVars, worldVars, fs, run>>
  /\ UNCHANGED clockVars

\* How the call ends and the bytes it left at the output path (0: no file):
\* it raises, ffmpeg exits non-zero (with or without a partial file), or
\* ffmpeg exits 0.
EncoderResults ==
  {<<"raised", 0>>, <<"nonzero", 0>>, <<"nonzero", 1>>}
    \cup {<<"zero", k>> : k \in 0..(MaxBytes + 1)}

EncoderExit ==
  /\ pc = "encoding"
  /\ \E res \in EncoderResults :
       LET left == IF res[2] = 0 THEN fs[Cur]
                   ELSE Written(Cur, IF res[1] = "zero" THEN "transcoded" ELSE "partial",
                                res[2])
       IN  /\ fs' = [fs EXCEPT ![Cur] = left]
           /\ IF res[1] = "zero"
              THEN /\ log' = [log EXCEPT ![run][Cur].produced = left]
                   /\ pc' = "postcheck"
                   /\ idx' = idx
              ELSE \* logged, continue: no estimate, nothing added to processed_bytes
                   /\ log' = [log EXCEPT ![run][Cur] =
                                [@ EXCEPT !.produced = left,
                                          !.outcome = IF res[1] = "raised"
                                                      THEN "launch_failed"
                                                      ELSE "encode_failed"]]
                   /\ pc' = "loop"
                   /\ idx' = idx + 1
  /\ UNCHANGED <<variant, config_dict, video_info_dict, resize_param_dict,
                 num_deletedVideos, total_bytes, processed_bytes, worldVars, run>>
  /\ UNCHANGED clockVars

ProcessedAfterBug(processed, a) == processed

\* v41: processed_bytes += os.path.getsize(path); v37 keeps no byte totals
ProcessedAfter(processed, a) ==
  IF variant = "v41" THEN processed + src_bytes[a] ELSE processed

\* after exit 0: the size check, the fallback copy or the timestamps, then
\* the estimate of the finish time
PostCheck ==
  /\ pc = "postcheck"
  /\ \E res \in CopyResults, times_ok \in BOOLEAN :
       LET missing  == ~OutputExists(Cur)          \* os.path.getsize raises
           fallback == ~missing /\ Oversized(Cur)
           raises   == variant = "v37" /\ EtaDivisor(num_deletedVideos) = 0
       IN  /\ (~fallback => res = "ok")            \* no copy is attempted
           /\ ((missing \/ fallback) => times_ok)  \* no timestamps are set
           /\ fs' = IF fallback THEN CopyEffect(Cur, res) ELSE fs
           /\ log' = [log EXCEPT ![run][Cur] =
                        [@ EXCEPT !.copies = IF fallback THEN 1 ELSE 0,
                                  !.eta = IF raises THEN 0 ELSE 1,
                                  !.outcome =
                                    CASE missing -> "check_failed"
                                      [] fallback /\ res = "ok" -> "fallback_copied"
                                      [] fallback -> "fallback_failed"
                                      [] times_ok -> "converted"
                                      [] OTHER -> "timestamp_failed"]]
           /\ processed_bytes' = ProcessedAfter(processed_bytes, Cur)
           /\ IF raises THEN pc' = "crashed" /\ idx' = idx
                        ELSE pc' = "loop" /\ idx' = idx + 1
  /\ UNCHANGED <<variant, config_dict, video_info_dict, resize_param_dict,
                 num_deletedVideos, total_bytes, worldVars, run>>
  /\ UNCHANGED clockVars

\* The summary v41 logs after the loop: total_videos - num_deletedVideos as
\* the number of processed videos, num_deletedVideos as the number skipped.
\* No other count is kept.
ProcessedVideos == Len(Batch) - num_deletedVideos

SkippedVideos == num_deletedVideos

\* the loop is over: resize() and run() return
Finish ==
  /\ pc = "loop" /\ idx = Len(Batch)
  /\ pc' = "done"
  /\ UNCHANGED <<variant, config_dict, video_info_dict, resize_param_dict,
                 loopVars, worldVars, fs, run, log>>
  /\ UNCHANGED clockVars

\* The program is started again on the same files, configuration and output
\* directory: a fresh process, the output files as the last run left them.
Rerun ==
  /\ pc \in {"done", "crashed", "crashed_get_infoDict", "killed"} /\ run < MaxRuns
  /\ run' = run + 1
  /\ pc' = "get_infoDict"
  /\ video_info_dict' = <<>> /\ resize_param_dict' = <<>>
  /\ idx' = 0 /\ num_deletedVideos' = 0 /\ total_bytes' = 0 /\ processed_bytes' = 0
  /\ UNCHANGED <<variant, config_dict, worldVars, fs, log>>
  /\ UNCHANGED clockVars

Init ==
  /\ variant \in Variants
  /\ \E copy \in BOOLEAN :
       config_dict = ConfigOf(<<"fullhd", <<0, 0>>>>, "xy", <<1, 1>>,
                              DefaultFps, DefaultCap, copy)
  /\ \E n \in 1..MaxAssets :
       /\ video_pathls = [i \in 1..n |-> <<InDir, FileNames[i]>>]
       /\ probe \in [1..n -> Probes]
       /\ src_bytes \in [1..n -> 1..MaxBytes]
       /\ fs \in [1..n -> {Absent, Stale}]
       /\ log = [r \in 1..MaxRuns |-> [a \in 1..n |-> NoLog]]
  /\ pc = "get_infoDict"
  /\ video_info_dict = <<>> /\ resize_param_dict = <<>>
  /\ idx = 0 /\ num_deletedVideos = 0 /\ total_bytes = 0 /\ processed_bytes = 0
  /\ run = 1
  /\ resize_start_time = FZero /\ now = FZero /\ estimated_finish_time = FZero

Next ==
  \/ get_infoDict
  \/ set_parameters
  \/ ResizeStart
  \/ SkipExisting
  \/ NoChange
  \/ StartEncoder
  \/ EncoderExit
  \/ PostCheck
  \/ Finish
  \/ Rerun

Spec == Init /\ [][Next]_vars

\* The steps of the loop of resize().
LoopStep ==
  \/ SkipExisting
  \/ NoChange
  \/ StartEncoder
  \/ EncoderExit
  \/ PostCheck
  \/ Finish

\* One run of the program, from its start until it returns or raises;
\* whether the program is started again is up to the user.
RunStep ==
  \/ get_infoDict
  \/ set_parameters
  \/ ResizeStart
  \/ LoopStep

\* Only the loop of resize() is assumed to go on: an iteration that has
\* begun is carried through, the encoder it started returns, and the loop
\* moves to the next asset or leaves.
FairSpec == Init /\ [][RunStep]_vars /\ WF_vars(LoopStep)

(***************************************************************************)
(* SpecResume: the host process may be terminated at any point of a run.   *)
(***************************************************************************)
Running == {"get_infoDict", "set_parameters", "resize", "loop", "encoding", "postcheck"}

\* What a terminated encoder has left at the output path of the asset it
\* was writing: nothing yet, or a part of the output. ffmpeg writes to
\* output_path itself, there is no temporary file.
KilledEncoderLeaves(a) == {fs[a], Written(a, "partial", 1)}

\* The process is terminated from outside. Every iteration that has not
\* ended is marked "killed" in the log.
Terminate ==
  /\ pc \in Running
  /\ pc' = "killed"
  /\ \E left \in (IF pc = "encoding" THEN KilledEncoderLeaves(Cur) ELSE {<<>>}) :
       fs' = IF pc = "encoding" THEN [fs EXCEPT ![Cur] = left] ELSE fs
  /\ log' = [log EXCEPT ![run] =
               [a \in Assets |-> IF log[run][a].outcome = "none"
                                 THEN [log[run][a] EXCEPT !.outcome = "killed"]
                                 ELSE log[run][a]]]
  /\ UNCHANGED <<variant, config_dict, video_info_dict, resize_param_dict,
                 loopVars, worldVars, run>>
  /\ UNCHANGED clockVars

\* sources that probe well, an empty output directory
InitResume ==
  /\ Init
  /\ \A a \in Assets : probe[a] \in {ProbeChange, ProbeSame} /\ fs[a] = Absent

NextResume == Next \/ Terminate

SpecResume == InitResume /\ [][NextResume]_vars

(***************************************************************************)
(* SpecPaths: one run from get_videos on, the input a directory or a       *)
(* file, the output directory apart from the input or the same.            *)
(***************************************************************************)
Inputs ==
  {InputOf(<<InDir>>, FALSE),
   InputOf(<<InDir, <<"a">>>>, TRUE),
   InputOf(<<InDir, <<"a", " ", "b", "?">>>>, TRUE)}

OutputDirs == {<<OutDir>>, <<InDir>>}

\* what is at the output paths before the run: the source itself where the
\* output path of an input file is the path of that file
FilesBefore(input, out, n, bytes) ==
  IF input.is_file /\ out = Parent(input.parts)
  THEN {[a \in 1..n |-> SourceFile(bytes[a])]}
  ELSE [1..n -> {Absent, Stale}]

InitPaths ==
  /\ variant \in Variants
  /\ \E copy \in BOOLEAN, input \in Inputs, out \in OutputDirs,
        n \in 1..MaxAssets :
       /\ input.is_file => n = 1
       /\ config_dict =
            [ConfigOf(<<"fullhd", <<0, 0>>>>, "xy", <<1, 1>>, DefaultFps,
                      DefaultCap, copy) EXCEPT !.input = input, !.output = out]
       /\ probe \in [1..n -> {ProbeChange, ProbeSame}]
       /\ src_bytes \in [1..n -> 1..MaxBytes]
       /\ fs \in FilesBefore(input, out, n, src_bytes)
       /\ log = [r \in 1..MaxRuns |-> [a \in 1..n |-> NoLog]]
  /\ video_pathls = <<>>
  /\ pc = "get_videos"
  /\ video_info_dict = <<>> /\ resize_param_dict = <<>>
  /\ idx = 0 /\ num_deletedVideos = 0 /\ total_bytes = 0 /\ processed_bytes = 0
  /\ run = 1
  /\ resize_start_time = FZero /\ now = FZero /\ estimated_finish_time = FZero

NextPaths == get_videos \/ RunStep

SpecPaths == InitPaths /\ [][NextPaths]_vars

(***************************************************************************)
(* SpecEta: calculate_estimated_finish_time (v41) on its own, the inputs   *)
(* swept.                                                                  *)
(***************************************************************************)
MaxTicks == 3

\* processed_bytes / elapsed_time
processBPS(processed, elapsed_time) == FDiv(FromInt(processed), elapsed_time)

\* max(total_bytes - processed_bytes, 0)
remain_bytes(total, processed) ==
  IF total - processed > 0 THEN total - processed ELSE 0

\* remain_bytes / processBPS
est_remain_timeBug(remain, bps) == FMul(FromInt(remain), bps)

est_remain_time(remain, bps) == FDiv(FromInt(remain), bps)

EstimateAfter(processed, total, t, elapsed_time) ==
  IF elapsed_time = FZero \/ processed = 0 THEN t
  ELSE FAdd(t, est_remain_time(remain_bytes(total, processed),
                               processBPS(processed, elapsed_time)))

\* t is the reading of time.time() the function takes
calculate_estimated_finish_time(processed, total, start_time, t) ==
  EstimateAfter(processed, total, t, FSub(t, start_time))

EstimateFinish ==
  /\ pc = "estimate"
  /\ estimated_finish_time' =
       calculate_estimated_finish_time(processed_bytes, total_bytes,
                                       resize_start_time, now)
  /\ pc' = "estimated"
  /\ UNCHANGED <<variant, config_dict, video_info_dict, resize_param_dict,
                 loopVars, worldVars, fs, run, log, resize_start_time, now>>

\* readings of time.time(): tenths of a second after 0 and after an epoch
\* time of today's size
ClockReadings ==
  {FAdd(FromInt(base), FDivInt(k, 10)) : base \in {0, 1700000000}, k \in 0..MaxTicks}

ByteCounts == {0, 1, 3, 1000, 1048576, 700000000}

InitEta ==
  /\ variant = "v41"
  /\ pc = "estimate"
  /\ processed_bytes \in ByteCounts /\ total_bytes \in ByteCounts
  /\ resize_start_time \in ClockReadings /\ now \in ClockReadings
  /\ ~FLess(now, resize_start_time)
  /\ estimated_finish_time = FZero
  /\ config_dict = <<>> /\ video_info_dict = <<>> /\ resize_param_dict = <<>>
  /\ idx = 0 /\ num_deletedVideos = 0
  /\ video_pathls = <<>> /\ probe = <<>> /\ src_bytes = <<>>
  /\ fs = <<>> /\ run = 1 /\ log = <<>>

NextEta == EstimateFinish

SpecEta == InitEta /\ [][NextEta]_vars

(***************************************************************************)
(* Properties of set_parameters.                                           *)
(***************************************************************************)
Planned == DOMAIN resize_param_dict

Plan(a) == resize_param_dict[a]

\* what set_size was called with for asset a
ModeRatioOf(a) ==
  ModeRatio(video_info_dict[a].size, config_dict.mode, config_dict.custom_param,
            config_dict.limit_direction)

\* the floored size the mode's ratio gives, before the minimum is looked at
FirstSizeOf(a) == ApplyRatio(video_info_dict[a].size, ModeRatioOf(a))

MinTriggered(a) == BelowMin(FirstSizeOf(a), config_dict.min_size)

TargetSize == PresetSizes(config_dict.mode, config_dict.custom_param)

UpToEven(n) == n + (n % 2)

\* C1: for every native size and every mode, limit direction and minimum
\* size, the width and the height set_size returns are both even.
C1_SizeIsEven ==
  \A a \in Planned : Plan(a).size[1] % 2 = 0 /\ Plan(a).size[2] % 2 = 0

\* a plan whose width came out odd before the rounding: 1919 -> 1920
C1_Witness ==
  \E a \in Planned :
    /\ video_info_dict[a].size = <<1919, 1079>>
    /\ Plan(a).size = <<1920, 1080>>

\* C2: change_required is true iff at least one of target size, target
\* bitrate, target fps differs from the native value, and false iff all
\* three equal it.
C2_ChangeRequiredIff ==
  \A a \in Planned :
    LET differs == \/ Plan(a).size # video_info_dict[a].size
                   \/ Plan(a).bit_rate # video_info_dict[a].bit_rate
                   \/ Plan(a).fps # video_info_dict[a].avg_frame_rate
    IN  /\ Plan(a).change_required = TRUE <=> differs
        /\ Plan(a).change_required = FALSE <=> ~differs

\* a plan that needs a change for its frame rate alone
C2_Witness ==
  \E a \in Planned :
    /\ Plan(a).change_required
    /\ Plan(a).size = video_info_dict[a].size
    /\ Plan(a).bit_rate = video_info_dict[a].bit_rate
    /\ Plan(a).fps # video_info_dict[a].avg_frame_rate

\* C6 as claimed: for the preset, box and custom modes the resolved size
\* never exceeds the native size, whatever the direction and minimum size.
C6_NeverUpscales ==
  \A a \in Planned :
    config_dict.mode # "divide" =>
      /\ Plan(a).size[1] <= video_info_dict[a].size[1]
      /\ Plan(a).size[2] <= video_info_dict[a].size[2]

\* C6 as amended: for the preset, box and custom modes the ratio the mode
\* asks for never exceeds 1, and unless the minimum-size adjustment is
\* triggered each resolved dimension is at most the native dimension rounded
\* up to even.
C6_NoUpscaleBeyondEven ==
  \A a \in Planned :
    config_dict.mode # "divide" =>
      /\ ~FLess(FromInt(1), ModeRatioOf(a))
      /\ ~MinTriggered(a) =>
           /\ Plan(a).size[1] <= UpToEven(video_info_dict[a].size[1])
           /\ Plan(a).size[2] <= UpToEven(video_info_dict[a].size[2])

\* a native size above the target that is scaled down
C6_Witness ==
  \E a \in Planned :
    /\ config_dict.mode # "divide"
    /\ ~MinTriggered(a)
    /\ FLess(ModeRatioOf(a), FromInt(1))
    /\ Plan(a).size[1] < video_info_dict[a].size[1]
    /\ Plan(a).size[2] < video_info_dict[a].size[2]

\* C7 as claimed: with limit direction xy, in the preset, box and custom
\* modes, neither resolved dimension exceeds the target dimension.
C7_WithinTarget ==
  \A a \in Planned :
    (config_dict.mode # "divide" /\ config_dict.limit_direction = "xy") =>
      /\ Plan(a).size[1] <= TargetSize[1]
      /\ Plan(a).size[2] <= TargetSize[2]

\* C7 as amended: the same, unless the minimum-size adjustment is triggered,
\* and up to the rounding to even (a target of odd width or height, which
\* only the custom mode can have, is exceeded by one).
C7_WithinEvenTarget ==
  \A a \in Planned :
    (config_dict.mode # "divide" /\ config_dict.limit_direction = "xy"
       /\ ~MinTriggered(a)) =>
      /\ Plan(a).size[1] <= UpToEven(TargetSize[1])
      /\ Plan(a).size[2] <= UpToEven(TargetSize[2])

\* a native size above the target on both axes, limited in both directions
C7_Witness ==
  \E a \in Planned :
    /\ config_dict.mode # "divide" /\ config_dict.limit_direction = "xy"
    /\ ~MinTriggered(a)
    /\ video_info_dict[a].size[1] > TargetSize[1]
    /\ video_info_dict[a].size[2] > TargetSize[2]

\* C8 as claimed: whenever the mode's ratio floors a dimension below the
\* minimum size, the resolved dimension on the axis of the limit direction
\* (x: width, y: height, xy: both) is at least the minimum for that axis.
C8_MinimumDominates ==
  \A a \in Planned :
    MinTriggered(a) =>
      /\ config_dict.limit_direction \in {"x", "xy"} =>
           Plan(a).size[1] >= config_dict.min_size[1]
      /\ config_dict.limit_direction \in {"y", "xy"} =>
           Plan(a).size[2] >= config_dict.min_size[2]

\* C9 as claimed: the target bitrate never exceeds the native bitrate, and
\* with bpp 0.036, target 1920x1080 and 30 fps the ceiling is 2,239,488:
\* native 5,000,000 gives 2,239,488 and native 1,000,000 gives 1,000,000.
C9_Example(a) ==
  /\ variant = "v41" /\ config_dict.bpp = <<36, 1000>>
  /\ Plan(a).size = <<1920, 1080>> /\ Plan(a).fps = FromInt(30)

C9_CeilingIs2239488 ==
  \A a \in Planned :
    /\ ~FLess(video_info_dict[a].bit_rate, Plan(a).bit_rate)
    /\ C9_Example(a) =>
         /\ video_info_dict[a].bit_rate = FromInt(5000000) =>
              Plan(a).bit_rate = FromInt(2239488)
         /\ video_info_dict[a].bit_rate = FromInt(2239488) =>
              Plan(a).bit_rate = FromInt(2239488)
         /\ video_info_dict[a].bit_rate = FromInt(1000000) =>
              Plan(a).bit_rate = FromInt(1000000)

\* the ceiling of asset a: the configured cap (v37) or the double-precision
\* product ((bpp * width) * height) * fps of the resolved size and fps (v41)
C9_Ceiling(a) ==
  IF variant = "v37" THEN FromInt(config_dict.bitrate)
  ELSE FMul(FMul(FMul(DecimalToFloat(config_dict.bpp), FromInt(Plan(a).size[1])),
                 FromInt(Plan(a).size[2])), Plan(a).fps)

\* C9 as amended: the target bitrate is the smaller of the native bitrate
\* and the ceiling, so it never exceeds the native bitrate; the ceiling of
\* the example is a double just below 2,239,488 (2239487.9999999995): it
\* is not an integer and truncates to 2,239,487, so that a native bitrate
\* of exactly 2,239,488 is capped too and the asset requires a change.
C9_MinOfNativeAndCeiling ==
  \A a \in Planned :
    LET native == video_info_dict[a].bit_rate IN
    /\ Plan(a).bit_rate \in {native, C9_Ceiling(a)}
    /\ ~FLess(native, Plan(a).bit_rate)
    /\ ~FLess(C9_Ceiling(a), Plan(a).bit_rate)
    /\ C9_Example(a) =>
         /\ ~FIsInt(C9_Ceiling(a)) /\ FInt(C9_Ceiling(a)) = 2239487
         /\ native = FromInt(5000000) => Plan(a).bit_rate = C9_Ceiling(a)
         /\ native = FromInt(2239488) =>
              /\ Plan(a).bit_rate = C9_Ceiling(a)
              /\ Plan(a).bit_rate # native
              /\ Plan(a).change_required
         /\ native = FromInt(1000000) => Plan(a).bit_rate = FromInt(1000000)

\* the example: bpp 0.036, 1920x1080 at 30 fps, native 5,000,000, capped
C9_Witness ==
  \E a \in Planned :
    /\ C9_Example(a)
    /\ video_info_dict[a].bit_rate = FromInt(5000000)
    /\ FLess(Plan(a).bit_rate, video_info_dict[a].bit_rate)

\* The claim's formula for the preset, box and custom modes, in the code's
\* double arithmetic: ratio_w = target_w / origin_w if origin_w > target_w
\* else 1 (same for the height), x -> ratio_w, y -> ratio_h,
\* xy -> min(ratio_w, ratio_h).
C10_Ratio(a) ==
  LET o  == video_info_dict[a].size
      rw == IF o[1] > TargetSize[1] THEN FDivInt(TargetSize[1], o[1]) ELSE FromInt(1)
      rh == IF o[2] > TargetSize[2] THEN FDivInt(TargetSize[2], o[2]) ELSE FromInt(1)
  IN  CASE config_dict.limit_direction = "x" -> rw
        [] config_dict.limit_direction = "y" -> rh
        [] OTHER -> IF FLess(rh, rw) THEN rh ELSE rw

C10_Floor(a, i) == FInt(FMul(FromInt(video_info_dict[a].size[i]), C10_Ratio(a)))

C10_Is1920x1080(a) ==
  (/\ video_info_dict[a].size = <<3840, 2160>>
   /\ config_dict.mode = "1920box"
   /\ config_dict.limit_direction = "xy") => Plan(a).size = <<1920, 1080>>

\* C10 as claimed: set_size returns (floor(origin_w * ratio),
\* floor(origin_h * ratio)) rounded up to even, and 3840x2160 with 1920box
\* and xy resolves to 1920x1080.
C10_ReturnsFlooredRatio ==
  \A a \in Planned :
    config_dict.mode # "divide" =>
      /\ Plan(a).size = <<UpToEven(C10_Floor(a, 1)), UpToEven(C10_Floor(a, 2))>>
      /\ C10_Is1920x1080(a)

\* The same ratio as an exact fraction <<numerator, denominator>>.
C10_ExactRatio(a) ==
  LET o  == video_info_dict[a].size
      rw == IF o[1] > TargetSize[1] THEN <<TargetSize[1], o[1]>> ELSE <<1, 1>>
      rh == IF o[2] > TargetSize[2] THEN <<TargetSize[2], o[2]>> ELSE <<1, 1>>
  IN  CASE config_dict.limit_direction = "x" -> rw
        [] config_dict.limit_direction = "y" -> rh
        [] OTHER -> IF rh[1] * rw[2] < rw[1] * rh[2] THEN rh ELSE rw

\* dimension i is the exact floor of origin * ratio rounded up to even, or,
\* where that product is a whole number, possibly the even rounding of one
\* less (the double product may fall just below it)
C10_AxisOk(a, i) ==
  LET r    == C10_ExactRatio(a)
      prod == video_info_dict[a].size[i] * r[1]
      q    == prod \div r[2]
  IN  \/ Plan(a).size[i] = UpToEven(q)
      \/ prod % r[2] = 0 /\ Plan(a).size[i] = UpToEven(q - 1)

\* C10 as amended: the formula gives the returned size whenever the
\* minimum-size adjustment is not triggered; the quotient and the product
\* are taken in double arithmetic, so a floored dimension is the exact
\* floor or, where the exact product is a whole number, possibly one less.
C10_FlooredRatioUnlessMin ==
  \A a \in Planned :
    (config_dict.mode # "divide" /\ ~MinTriggered(a)) =>
      /\ Plan(a).size = <<UpToEven(C10_Floor(a, 1)), UpToEven(C10_Floor(a, 2))>>
      /\ C10_AxisOk(a, 1) /\ C10_AxisOk(a, 2)
      /\ C10_Is1920x1080(a)

\* the box example: 3840x2160, 1920box, xy, resolved to 1920x1080
C10_Witness ==
  \E a \in Planned :
    /\ video_info_dict[a].size = <<3840, 2160>>
    /\ config_dict.mode = "1920box" /\ config_dict.limit_direction = "xy"
    /\ ~MinTriggered(a)
    /\ Plan(a).size = <<1920, 1080>>

(***************************************************************************)
(* Properties of resize().                                                 *)
(***************************************************************************)
Runs == DOMAIN log

Entry(r, a) == log[r][a]

IterationEnded(r, a) == Entry(r, a).outcome \notin {"none", "killed"}

\* the encoder exited 0 and left a file larger than the source
ProducedOversized(r, a) ==
  /\ Entry(r, a).produced.kind = "transcoded"
  /\ Entry(r, a).produced.bytes > src_bytes[a]

VerbatimCopy(a) == fs[a].kind = "copy" /\ fs[a].bytes = src_bytes[a]

\* C3: if a file exists at an asset's output path when its iteration
\* starts, the encoder is not invoked and no copy is made for it, and the
\* file is the same file at the end of the iteration and of the run.
C3_ExistingOutputUntouched ==
  \A r \in Runs, a \in Assets :
    Entry(r, a).existed =>
      /\ Entry(r, a).encoder = 0
      /\ Entry(r, a).copies = 0
      /\ fs[a] = Entry(r, a).before

\* a run that ended after it skipped a file put there before the first run
C3_Witness ==
  /\ pc = "done"
  /\ \E a \in Assets :
       /\ Entry(run, a).existed
       /\ Entry(run, a).outcome = "exists"
       /\ fs[a] = Stale

\* C4 as stated: whenever the encoder exits 0 with an output larger than
\* the source, the file at the output path at the end of the iteration is a
\* verbatim copy of the source.
C4_OversizedAlwaysReplaced ==
  \A r \in Runs, a \in Assets :
    (ProducedOversized(r, a) /\ IterationEnded(r, a)) => VerbatimCopy(a)

\* C4: whenever the encoder exits 0 with an output larger than the source,
\* the copy of the source over it is attempted once and the file is never
\* accepted as converted; if the copy is made, the file at the output path
\* is a verbatim copy of the source; if the copy raises, the error is
\* logged and the oversized file, or what the copy left of it, stays.
C4_OversizedReplacedIfCopyMade ==
  \A r \in Runs, a \in Assets :
    (ProducedOversized(r, a) /\ IterationEnded(r, a)) =>
      /\ Entry(r, a).copies = 1
      /\ Entry(r, a).outcome \in {"fallback_copied", "fallback_failed"}
      /\ Entry(r, a).outcome = "fallback_copied" => VerbatimCopy(a)
      /\ Entry(r, a).outcome = "fallback_failed" =>
           \/ fs[a] = Entry(r, a).produced
           \/ fs[a].kind = "partialcopy"

\* an oversized output that was replaced by the copy
C4_Witness ==
  \E r \in Runs, a \in Assets :
    /\ ProducedOversized(r, a)
    /\ Entry(r, a).outcome = "fallback_copied"
    /\ VerbatimCopy(a)

\* the outcomes of an iteration that leave a file at the output path
LeavesFile ==
  {"exists", "converted", "timestamp_failed", "fallback_copied", "fallback_failed",
   "nochange_copied"}

\* the outcomes after which the output path may still be empty
LeavesNothing == {"none", "launch_failed", "encode_failed", "check_failed"}

\* C5 as stated: on a second run over the same files, configuration and
\* output directory the encoder is never invoked and every asset the run
\* comes to is skipped as already existing, whatever the first run's
\* outcomes were.
C5_SecondRunAllSkipped ==
  \A r \in Runs, a \in Assets :
    r > 1 => Entry(r, a).encoder = 0 /\ Entry(r, a).outcome \in {"none", "exists"}

\* C5: on a second run over the same files, configuration and output
\* directory, every asset whose iteration in the first run left a file at
\* its output path is skipped as already existing when the run comes to it,
\* and the encoder is invoked only for assets whose first-run iteration
\* failed without leaving a file or was never reached.
C5_SecondRunConvertsOnlyMissing ==
  \A r \in Runs, a \in Assets :
    r > 1 =>
      /\ Entry(r - 1, a).outcome \in LeavesFile =>
           Entry(r, a).encoder = 0 /\ Entry(r, a).outcome \in {"none", "exists"}
      /\ Entry(r, a).encoder > 0 =>
           /\ Entry(r - 1, a).outcome \in LeavesNothing
           /\ Entry(r - 1, a).produced = Absent

\* a second run that ended after it skipped what the first run converted
C5_Witness ==
  /\ run = 2 /\ pc = "done"
  /\ \E a \in Assets :
       /\ Entry(1, a).outcome = "converted"
       /\ Entry(2, a).outcome = "exists"
       /\ Entry(2, a).encoder = 0

(***************************************************************************)
(* Properties of calculate_estimated_finish_time.                          *)
(***************************************************************************)
Estimated == pc = "estimated"

ElapsedTime == FSub(now, resize_start_time)

\* C11: for 0 <= processed_bytes <= total_bytes and start_time <= now the
\* estimate is at least now; it is exactly now when processed_bytes is 0
\* or the elapsed time is 0; otherwise it is
\* now + (total_bytes - processed_bytes) / (processed_bytes / elapsed).
C11_EstimateFromRate ==
  (Estimated /\ processed_bytes <= total_bytes) =>
    /\ ~FLess(estimated_finish_time, now)
    /\ (processed_bytes = 0 \/ ElapsedTime = FZero) => estimated_finish_time = now
    /\ (processed_bytes # 0 /\ ElapsedTime # FZero) =>
         estimated_finish_time =
           FAdd(now, FDiv(FromInt(total_bytes - processed_bytes),
                          FDiv(FromInt(processed_bytes), ElapsedTime)))

\* an estimate past now: some bytes processed, some left, time elapsed
C11_Witness ==
  /\ Estimated
  /\ 0 < processed_bytes /\ processed_bytes < total_bytes
  /\ FLess(resize_start_time, now)
  /\ FLess(now, estimated_finish_time)

\* the iteration of asset a in the current run found no output and a plan
\* that requires no change, and has ended
NoChangeDone(a) ==
  /\ IterationEnded(run, a)
  /\ ~Entry(run, a).existed
  /\ a \in DOMAIN resize_param_dict
  /\ ~resize_param_dict[a].change_required

SizeExceeds(a) ==
  LET w_over == video_info_dict[a].size[1] > TargetSize[1]
      h_over == video_info_dict[a].size[2] > TargetSize[2]
  IN  CASE config_dict.limit_direction = "x" -> w_over
        [] config_dict.limit_direction = "y" -> h_over
        [] OTHER -> w_over \/ h_over

\* the ceiling the native bitrate is compared with
BitrateCeiling(a) ==
  IF variant = "v37" THEN FromInt(config_dict.bitrate)
  ELSE bitrateFromBPP(DecimalToFloat(config_dict.bpp), Plan(a).size[1],
                      Plan(a).size[2], Plan(a).fps)

BitrateExceeds(a) == FLess(BitrateCeiling(a), video_info_dict[a].bit_rate)

FpsExceeds(a) == FLess(DecimalToFloat(config_dict.fps), video_info_dict[a].avg_frame_rate)

ExceedsLimit(a) == SizeExceeds(a) \/ BitrateExceeds(a) \/ FpsExceeds(a)

OddNative(a) ==
  video_info_dict[a].size[1] % 2 = 1 \/ video_info_dict[a].size[2] % 2 = 1

EncoderInvoked(a) == Entry(run, a).encoder > 0

\* C14 as stated: the encoder is invoked only for a source whose native
\* width or height exceeds the target on the limited axis, whose native
\* bitrate exceeds the ceiling, or whose native frame rate exceeds the cap.
C14_EncoderOnlyIfExceeds ==
  \A a \in Assets : EncoderInvoked(a) => a \in Planned /\ ExceedsLimit(a)

\* C14: the encoder is invoked only for a source whose plan requires a
\* change: its native width or height exceeds the target on the limited
\* axis, its native bitrate exceeds the ceiling, its native frame rate
\* exceeds the cap, or its size is changed by the rounding of an odd native
\* dimension up to even or by the minimum-size adjustment.
C14_EncoderOnlyIfPlanDiffers ==
  \A a \in Assets :
    EncoderInvoked(a) =>
      /\ a \in Planned
      /\ Plan(a).change_required
      /\ OddNative(a) \/ ExceedsLimit(a) \/ MinTriggered(a)

\* the encoder ran on a source over the limits, and on one within them
\* whose odd dimensions the plan rounds up
C14_Witness ==
  /\ \E a \in Assets : EncoderInvoked(a) /\ a \in Planned /\ ExceedsLimit(a)
  /\ \E a \in Assets :
       /\ EncoderInvoked(a) /\ a \in Planned
       /\ ~ExceedsLimit(a) /\ OddNative(a)
       /\ Plan(a).size = <<1280, 720>>

\* the iteration of asset a in the current run ended on a failed conversion
ConversionFailed(a) == Entry(run, a).outcome \in {"launch_failed", "encode_failed"}

\* C15: after a conversion fails (the encoder exits non-zero or cannot be
\* launched) no file exists at the asset's output path when the iteration
\* ends, whatever the encoder wrote before it failed.
C15_FailedLeavesNoFile ==
  \A a \in Assets : ConversionFailed(a) => fs[a] = Absent

\* the outcomes of an iteration in which nothing failed
Succeeded ==
  {"exists", "converted", "fallback_copied", "nochange_skipped", "nochange_copied"}

\* the run r was terminated, and nothing had failed in it before
KilledCleanly(r) ==
  /\ \E a \in Assets : Entry(r, a).outcome = "killed"
  /\ \A a \in Assets : Entry(r, a).outcome \in Succeeded \cup {"killed"}

\* the current run went through the whole batch and nothing failed in it
CompletedCleanly ==
  /\ pc = "done"
  /\ \A a \in Planned : Entry(run, a).outcome \in Succeeded

CompleteOutput(a) ==
  \/ fs[a].kind = "transcoded"
  \/ VerbatimCopy(a)

\* C16: if a run is terminated at any point, the encoder possibly writing,
\* and the batch is run again to completion with nothing failing, then the
\* outputs the terminated run produced are skipped, and every asset that
\* requires a change ends with a complete transcode or a verbatim copy of
\* its source at its output path.
C16_ResumeByRerun ==
  (run > 1 /\ KilledCleanly(run - 1) /\ CompletedCleanly) =>
    \A a \in Planned :
      /\ Entry(run - 1, a).outcome \in {"converted", "fallback_copied", "nochange_copied"} =>
           Entry(run, a).outcome = "exists"
      /\ Plan(a).change_required => CompleteOutput(a)

\* the outcomes of an iteration that skipped its asset: the output existed,
\* or no change was required (the source copied or not)
SkipOutcomes == {"exists", "nochange_skipped", "nochange_copied", "nochange_copy_failed"}

\* the outcomes of an iteration whose encoder exited 0
EncodedOutcomes ==
  {"check_failed", "fallback_copied", "fallback_failed", "converted", "timestamp_failed"}

WithOutcome(S) == {a \in Planned : Entry(run, a).outcome \in S}

InResizeLoop == pc \in {"loop", "encoding", "postcheck", "done"}

\* C17: in v41, at every point of the loop, total_bytes is the byte size of
\* the whole batch less the sizes of the assets skipped so far (output
\* already there, or no change required, copied or not), and
\* processed_bytes is the sum over the encoded assets only: a skipped asset
\* is in neither.
C17_SkippedLeaveByteTotals ==
  (variant = "v41" /\ InResizeLoop) =>
    /\ total_bytes = SumBytes(Planned) - SumBytes(WithOutcome(SkipOutcomes))
    /\ processed_bytes = SumBytes(WithOutcome(EncodedOutcomes))

\* a run that skipped one asset and converted another: both totals are the
\* size of the converted one
C17_Witness ==
  /\ variant = "v41" /\ pc = "done"
  /\ \E a, b \in Planned :
       /\ Entry(run, a).outcome \in SkipOutcomes
       /\ Entry(run, b).outcome = "converted"
       /\ total_bytes = src_bytes[b]
       /\ processed_bytes = src_bytes[b]
       /\ total_bytes < SumBytes(Planned)

\* C18: the estimated finish time is computed exactly once for each asset
\* whose iteration has ended, whatever the outcome: converted, replaced by
\* the fallback copy, copied, skipped, or failed.
C18_EstimateOncePerAsset ==
  \A r \in Runs, a \in Assets : IterationEnded(r, a) => Entry(r, a).eta = 1

TimestampFailed(a) == Entry(run, a).outcome = "timestamp_failed"

\* the step in which copy_file_times raises for asset a
TimestampFails(a) ==
  /\ Entry(run, a).outcome = "none"
  /\ log'[run][a].outcome = "timestamp_failed"

\* C19: when setting the timestamps fails after a successful conversion,
\* the step leaves the transcoded file as it is, adds the asset's bytes to
\* processed_bytes (v41; v37 keeps no byte totals) and goes on to the next
\* asset; the file is still there as the encoder left it for the rest of
\* the run, and the run does not raise.
C19_TimestampFailureNonFatal ==
  /\ [](\A a \in Assets :
          TimestampFailed(a) =>
            /\ fs[a] = Entry(run, a).produced
            /\ fs[a].kind = "transcoded"
            /\ pc \in {"loop", "encoding", "postcheck", "done"})
  /\ [][\A a \in Assets :
          TimestampFails(a) =>
            /\ fs' = fs
            /\ variant = "v41" => processed_bytes' = processed_bytes + src_bytes[a]
            /\ pc' = "loop"
            /\ idx' = idx + 1]_vars

\* a run that went on to convert the next asset after the timestamps of
\* the first could not be set, and reached its end
C19_Witness ==
  /\ pc = "done"
  /\ \E a, b \in Assets :
       /\ a < b
       /\ TimestampFailed(a)
       /\ fs[a].kind = "transcoded"
       /\ Entry(run, b).outcome = "converted"
       /\ variant = "v41" => processed_bytes = src_bytes[a] + src_bytes[b]

\* the files whose probe found a video stream
Probed == {a \in Assets : HasInfo(probe[a])}

\* C20: a file whose probe fails or finds no video stream gets no entry in
\* video_info_dict or resize_param_dict and is never encoded or copied, and
\* it does not abort the batch: once get_infoDict is over every file that
\* probed successfully has its entry, and once set_parameters is over
\* every such file has its plan.
C20_ProbeFailureExcluded ==
  /\ \A a \in Assets \ Probed :
       /\ a \notin DOMAIN video_info_dict
       /\ a \notin DOMAIN resize_param_dict
       /\ \A r \in Runs : Entry(r, a).encoder = 0 /\ Entry(r, a).copies = 0
  /\ pc # "get_infoDict" => DOMAIN video_info_dict = Probed
  /\ pc \notin {"get_infoDict", "set_parameters", "crashed_get_infoDict"} =>
       DOMAIN resize_param_dict = Probed

(***************************************************************************)
(* Properties of the batch as a whole.                                     *)
(***************************************************************************)
\* C12: no per-asset outcome aborts the batch: provided every encoder
\* invocation returns, resize() never raises and, once in its loop, goes
\* through the batch and reaches its end.
C12_BatchReachesEnd ==
  /\ [](pc # "crashed")
  /\ (pc = "loop") ~> (pc = "done")

(***************************************************************************)
(* Properties of the configuration and of the paths.                       *)
(***************************************************************************)
\* C21 as stated: no stage of run() changes any entry of config_dict.
C21_ConfigImmutable == [][config_dict' = config_dict]_vars

\* C21: get_infoDict, set_parameters and resize change no entry of
\* config_dict, and get_videos changes none but "input": when the input is
\* a file, "input" follows the file to its normalized name and is then
\* replaced by the directory the file is in.
C21_OnlyInputRebased ==
  [][/\ DOMAIN config_dict' = DOMAIN config_dict
     /\ \A k \in DOMAIN config_dict \ {"input"} : config_dict'[k] = config_dict[k]
     /\ pc # "get_videos" => config_dict' = config_dict
     /\ config_dict'.input # config_dict.input =>
          /\ config_dict.input.is_file
          /\ config_dict'.input = InputOf(Parent(video_pathls'[1]), FALSE)]_vars

\* a run to its end on an input file that was renamed: "input" is now the
\* directory of the file
C21_Witness ==
  /\ pc = "done"
  /\ video_pathls = <<<<InDir, <<"a", "_", "b">>>>>>
  /\ config_dict.input = InputOf(<<InDir>>, FALSE)

\* the output of asset a is to be written where its source is
SamePath(a) == output_path(a) = video_pathls[a]

\* the run has written to the output path of asset a
WrittenTo(a) == fs[a].ver > 0

\* C27: resize() writes only at output paths, and never at one that is the
\* path of a source: where the output path of an asset is the path of its
\* source (an input file whose directory is the output directory), the
\* file is found to exist, is not encoded or copied over, and is the same
\* source file at every point of the run.
C27_SourceUntouched ==
  /\ \A a, b \in Assets : WrittenTo(a) => output_path(a) # video_pathls[b]
  /\ \A a \in Assets :
       SamePath(a) =>
         /\ fs[a] = SourceFile(src_bytes[a])
         /\ Entry(run, a).encoder = 0 /\ Entry(run, a).copies = 0

\* a run to its end on a source that requires a change and whose output
\* path is its own path: it was skipped as existing
C27_Witness ==
  /\ pc = "done"
  /\ \E a \in Assets :
       /\ SamePath(a)
       /\ Plan(a).change_required
       /\ Entry(run, a).outcome = "exists"
       /\ fs[a] = SourceFile(src_bytes[a])

(***************************************************************************)
(* Properties of the counts and byte totals of resize().                   *)
(***************************************************************************)
FailedOutcomes == {"launch_failed", "encode_failed"}

\* C22: at the end of a run of v41 every asset of the batch is counted in
\* exactly one class, the counts sum to the size of the batch, and an
\* asset whose conversion failed is not among those counted as processed:
\* the number logged as processed is the number of assets whose encoder
\* exited 0, the number logged as skipped that of the skipped assets.
C22_TallyClassifies ==
  (variant = "v41" /\ pc = "done") =>
    /\ SkippedVideos = Cardinality(WithOutcome(SkipOutcomes))
    /\ ProcessedVideos = Cardinality(WithOutcome(EncodedOutcomes))
    /\ SkippedVideos + ProcessedVideos + Cardinality(WithOutcome(FailedOutcomes))
         = Len(Batch)

NoConversionFailed == WithOutcome(FailedOutcomes) = {}

\* C23: in v41, at every point of the loop and at the end of the run,
\* 0 <= processed_bytes <= total_bytes; processed_bytes never decreases
\* during a run; and at the end processed_bytes = total_bytes exactly when
\* no conversion failed.
C23_ProcessedWithinTotal ==
  /\ []((variant = "v41" /\ InResizeLoop) =>
          /\ 0 <= processed_bytes
          /\ processed_bytes <= total_bytes)
  /\ []((variant = "v41" /\ pc = "done") =>
          (processed_bytes = total_bytes <=> NoConversionFailed))
  /\ [][(variant = "v41" /\ run' = run) => processed_bytes' >= processed_bytes]_vars

\* a run that ended with a converted asset and a failed one: the bytes of
\* the failed one are in total_bytes only
C23_Witness ==
  /\ variant = "v41" /\ pc = "done"
  /\ \E a, b \in Planned :
       /\ Entry(run, a).outcome = "converted"
       /\ Entry(run, b).outcome = "encode_failed"
       /\ processed_bytes = src_bytes[a]
       /\ total_bytes = src_bytes[a] + src_bytes[b]

\* C24: in v37 the divisor processed_count - num_deletedVideos of the
\* estimate is at least 1 whenever the estimate is computed, after a
\* conversion and after a no-change asset alike, so resize() never ends in
\* a division by zero.
C24_DivisorAtLeastOne ==
  variant = "v37" =>
    /\ pc = "postcheck" => EtaDivisor(num_deletedVideos) >= 1
    /\ pc = "crashed" => EtaDivisor(num_deletedVideos) >= 1
    /\ pc # "crashed"

(***************************************************************************)
(* Further properties of set_size.                                         *)
(***************************************************************************)
\* C25: for every native size with positive dimensions and every mode,
\* limit direction and minimum size of at least (1, 1), the width and the
\* height set_size returns are both at least 2.
C25_SizeAtLeastTwo ==
  \A a \in Planned :
    (video_info_dict[a].size[1] >= 1 /\ video_info_dict[a].size[2] >= 1
       /\ config_dict.min_size[1] >= 1 /\ config_dict.min_size[2] >= 1) =>
      Plan(a).size[1] >= 2 /\ Plan(a).size[2] >= 2

\* a preset mode, both axes limited, the default minimum size
PresetXY ==
  /\ config_dict.mode \in {"fullhd", "4k", "1920box", "3840box"}
  /\ config_dict.limit_direction = "xy"
  /\ config_dict.min_size = <<1, 1>>

\* set_size applied to the size it returned for asset a
SizeAgain(a) ==
  set_size(Plan(a).size, config_dict.mode, config_dict.custom_param,
           config_dict.min_size, config_dict.limit_direction)

\* C26 as stated: for the preset modes with limit_direction xy and minimum
\* size (1, 1), set_size applied to its own result returns that result, for
\* every native size.
C26_Idempotent ==
  \A a \in Planned : PresetXY => SizeAgain(a) = Plan(a).size

\* C26: for the preset modes with limit_direction xy and minimum size
\* (1, 1), set_size applied to its own result returns that result, for
\* every native size for which the minimum-size adjustment was not
\* triggered.
C26_IdempotentUnlessMin ==
  \A a \in Planned :
    (PresetXY /\ ~MinTriggered(a)) => SizeAgain(a) = Plan(a).size

\* a size that was scaled down and rounded up to even, and is returned as
\* it is when set_size is applied to it
C26_Witness ==
  \E a \in Planned :
    /\ PresetXY /\ ~MinTriggered(a)
    /\ config_dict.mode = "fullhd"
    /\ video_info_dict[a].size = <<3840, 4280>>
    /\ Plan(a).size = <<968, 1080>>
    /\ SizeAgain(a) = <<968, 1080>>

====
